---- MODULE Spec2Model ----
(***************************************************************************)
(* Model of assistance/_ai/controller/generate_docstrings.py: the          *)
(* iterative-deepening driver generate_docstrings_tree, the recursive      *)
(* expansion coroutine _generate_docstrings over the on-disk registry      *)
(* (docstrings/<hash>.txt, dependencies/<hash>/, dependents/<hash>/), and  *)
(* the JSON repair loop _run_with_error_loop.                              *)
(*                                                                         *)
(* One action is one run of a coroutine between two suspension points      *)
(* (awaits on the embedding service, the completion gateway, aiofiles or   *)
(* asyncio.gather); the file-system calls in between are synchronous and   *)
(* so atomic under the single-threaded event loop.                         *)
(***************************************************************************)
EXTENDS Integers, Sequences, FiniteSets, TLC

\* ---------------------------------------------------------------- bounds
NumDocs == 3
MaxChildren == 2
MaxSimilar == 2
MaxDepth == 3
MaxPasses == 5
MaxResponseLen == 3
MaxCalls == 3

\* ------------------------------------------------------------- data model
Docstrings == 1..NumDocs

None == <<"None", 0>>

\* .indexer.hash_for_docstring: a deterministic, collision-free content hash.
hash_for_docstring(docstring) == <<"hash", docstring>>

Hashes == {hash_for_docstring(d) : d \in Docstrings}

\* line 368: file_contents = docstring + "\n"
file_contents(docstring) == <<docstring, "\n">>

\* the file as aiofiles.open(path, "w") leaves it before the write: empty
EmptyFile == <<>>

Root == <<>>

VARIABLES
  docstrings,          \* docstrings/<hash>.txt: hash -> content, domain = files that exist
  dependencies,        \* dependencies/<hash>/: hash -> set of marker files, domain = dirs that exist
  dependents,          \* dependents/<hash>/:   hash -> set of marker files, domain = dirs that exist
  already_traversing,  \* the set shared by all recursions of one pass
  frames,              \* the live _generate_docstrings coroutines: path -> locals
  driver,              \* generate_docstrings_tree: its locals and position
  passes,              \* passes asked for by the calls of generate_docstrings_tree so far
  event,               \* what the last step did, when it judged a duplicate or an ambiguous verdict
  loop                 \* _run_with_error_loop: its locals and position

registry_vars == <<docstrings, dependencies, dependents, already_traversing, frames,
                   driver, passes, event>>

vars == <<docstrings, dependencies, dependents, already_traversing, frames,
          driver, passes, event, loop>>

\* ------------------------------------------------------------ file system
\* (a mkdir that starts the directory afresh when it is already there)
Mkdir_Recreates(dirs, h) == [x \in DOMAIN dirs \cup {h} |-> IF x = h THEN {} ELSE dirs[x]]

\* Path.mkdir(exist_ok=True): an existing directory is left as it is
Mkdir(dirs, h) == IF h \in DOMAIN dirs THEN dirs ELSE [x \in DOMAIN dirs \cup {h} |-> IF x = h THEN {} ELSE dirs[x]]

\* shutil.rmtree / Path.unlink: the entry is gone (the caller checks it existed)
Remove(files, h) == [x \in DOMAIN files \ {h} |-> files[x]]

\* (a touch that creates nothing)
Touch_Nothing(dirs, h, name) == dirs

\* (dir / name).touch()
Touch(dirs, h, name) == [dirs EXCEPT ![h] = @ \cup {name}]

\* (a rename that copied: the old marker stays)
Rename_KeepsOld(markers, old, new) == markers \cup {new}

\* line 355, old_dependency_path.rename(new_dependency_path), on the marker files
\* of one directory: the old name is gone, the new one is there (replacing a
\* marker of that name, as rename does on POSIX)
Rename(markers, old, new) == (markers \ {old}) \cup {new}

Event(op, f, h, other, set) == [op |-> op, frame |-> f, hash |-> h, other |-> other, set |-> set]

NoEvent == Event("none", Root, None, None, {})

\* --------------------------------------------------------------- coroutines
\* the parameters and locals of one _generate_docstrings call (lines 270-278)
Frame(docstring, parent, current_depth, max_depth) ==
  [docstring |-> docstring, parent |-> parent, current_depth |-> current_depth,
   max_depth |-> max_depth, pc |-> "entry", children |-> 0,
   result |-> None, error |-> "none"]

\* everything a step may read and write, threaded through the statements of a step
World ==
  [docstrings |-> docstrings, dependencies |-> dependencies, dependents |-> dependents,
   already_traversing |-> already_traversing, frames |-> frames, event |-> event]

Commit(w) ==
  /\ docstrings' = w.docstrings
  /\ dependencies' = w.dependencies
  /\ dependents' = w.dependents
  /\ already_traversing' = w.already_traversing
  /\ frames' = w.frames
  /\ event' = w.event

\* `return value` of frame f
Return(w, f, value) == [w EXCEPT !.frames[f].pc = "returned", !.frames[f].result = value]

\* (an exception taken for a return without an id)
Raise_Swallowed(w, f, error) == [w EXCEPT !.frames[f].pc = "returned", !.frames[f].result = None]

\* an exception leaves frame f
Raise(w, f, error) == [w EXCEPT !.frames[f].pc = "failed", !.frames[f].error = error]

\* (no depth check at all)
DepthBoundReached_Never(current_depth, max_depth) == FALSE

\* (the test off by one: a node at the bound is still expanded)
DepthBoundReached_Strict(current_depth, max_depth) == current_depth > max_depth

\* line 286: if current_depth >= max_depth
DepthBoundReached(current_depth, max_depth) == current_depth >= max_depth

\* (a call that does not look its id up in the set before it goes on)
Enter_NoGuard(w, f) ==
  LET fr == w.frames[f]
      docstring_hash == hash_for_docstring(fr.docstring)
      w1 == [w EXCEPT !.already_traversing = @ \cup {docstring_hash}]
  IN IF DepthBoundReached(fr.current_depth, fr.max_depth)
       THEN Return(w1, f, docstring_hash)
       ELSE [w1 EXCEPT !.dependents = Mkdir(@, docstring_hash),
                       !.dependencies = Mkdir(@, docstring_hash),
                       !.frames[f].pc = "closest"]

\* lines 279-293: from the call to the first await (get_closest_functions)
Enter(w, f) ==
  LET fr == w.frames[f]
      docstring_hash == hash_for_docstring(fr.docstring)
  IN IF docstring_hash \in w.already_traversing
       THEN Return(w, f, docstring_hash)
       ELSE LET w1 == [w EXCEPT !.already_traversing = @ \cup {docstring_hash}]
            IN IF DepthBoundReached(fr.current_depth, fr.max_depth)
                 THEN Return(w1, f, docstring_hash)
                 ELSE [w1 EXCEPT !.dependents = Mkdir(@, docstring_hash),
                                 !.dependencies = Mkdir(@, docstring_hash),
                                 !.frames[f].pc = "closest"]

\* list.remove(x): the first occurrence is removed (ValueError is swallowed, lines 297-300)
RECURSIVE ListRemove(_, _)
ListRemove(list, x) ==
  IF list = <<>> THEN <<>>
  ELSE IF Head(list) = x THEN Tail(list)
  ELSE <<Head(list)>> \o ListRemove(Tail(list), x)

\* list[i] of Python as a 1-based position; 0 stands for IndexError
ListIndex(list, i) ==
  IF i >= 0 /\ i < Len(list) THEN i + 1
  ELSE IF i < 0 /\ -i <= Len(list) THEN Len(list) + i + 1
  ELSE 0

\* lines 347-365: every dependent's marker for docstring_hash is renamed to
\* similar_docstring_hash, then the call recurses into the similar docstring.
\* glob("*") yields the dependents in no particular order: a failing rename may be
\* preceded by any of the successful ones.
Rewire(w, f, docstring_hash, similar_docstring) ==
  LET similar_docstring_hash == hash_for_docstring(similar_docstring)
      ds == IF docstring_hash \in DOMAIN w.dependents THEN w.dependents[docstring_hash] ELSE {}
      good == {d \in ds : d \in DOMAIN w.dependencies /\ docstring_hash \in w.dependencies[d]}
      renamed(S) == [d \in DOMAIN w.dependencies |->
                       IF d \in S THEN Rename(w.dependencies[d], docstring_hash, similar_docstring_hash)
                       ELSE w.dependencies[d]]
  IN IF good = ds
       THEN {Enter([w EXCEPT !.dependencies = renamed(ds),
                             !.frames[f].docstring = similar_docstring,
                             !.event = Event("merge", f, docstring_hash, similar_docstring_hash, ds)], f)}
       ELSE {Raise([w EXCEPT !.dependencies = Mkdir(renamed(S), b),
                             !.event = Event("rewire_failed", f, docstring_hash, similar_docstring_hash, S)],
                   f, "FileNotFoundError") : S \in SUBSET good, b \in ds \ good}

\* lines 339-365 (and the fall through to line 367 when the similar text is not stored)
MergeOrNovel(w, f, similar_docstring) ==
  LET docstring_hash == hash_for_docstring(w.frames[f].docstring)
      similar_docstring_hash == hash_for_docstring(similar_docstring)
  IN IF similar_docstring_hash \in DOMAIN w.docstrings
       THEN IF docstring_hash \notin DOMAIN w.docstrings
              THEN {Raise(w, f, "FileNotFoundError")}
            ELSE LET w1 == [w EXCEPT !.docstrings = Remove(@, docstring_hash)]
                 IN IF docstring_hash \notin DOMAIN w1.dependencies
                      THEN {Raise(w1, f, "FileNotFoundError")}
                    ELSE Rewire([w1 EXCEPT !.dependencies = Remove(@, docstring_hash)],
                                f, docstring_hash, similar_docstring)
       ELSE {[w EXCEPT !.frames[f].pc = "open"]}

\* lines 326-337: the similar docstring is the parent
Prune(w, f, similar_docstring) ==
  LET docstring_hash == hash_for_docstring(w.frames[f].docstring)
  IN IF docstring_hash \notin DOMAIN w.docstrings
       THEN {Raise(w, f, "FileNotFoundError")}                          \* line 327
     ELSE LET w1 == [w EXCEPT !.docstrings = Remove(@, docstring_hash)]
          IN IF docstring_hash \notin DOMAIN w1.dependencies
               THEN {Raise(w1, f, "FileNotFoundError")}                 \* line 328
             ELSE LET w2 == [w1 EXCEPT !.dependencies = Remove(@, docstring_hash)]
                  IN IF docstring_hash \notin DOMAIN w2.dependencies
                       THEN {Raise(w2, f, "FileNotFoundError")}                 \* line 329
                     ELSE LET w3 == [w2 EXCEPT !.dependencies = Remove(@, docstring_hash)]
                              ds == IF docstring_hash \in DOMAIN w3.dependents
                                      THEN w3.dependents[docstring_hash] ELSE {}
                          IN IF ds = {}
                               THEN MergeOrNovel(w3, f, similar_docstring)
                               ELSE {LET w4 == [w3 EXCEPT !.dependencies = Mkdir(@, d)]
                                     IN IF docstring_hash \in w4.dependencies[d]
                                          THEN Return([w4 EXCEPT !.dependencies[d] = @ \ {docstring_hash}], f, None)
                                          ELSE Raise(w4, f, "FileNotFoundError")
                                     : d \in ds}

\* lines 317-365: what the judge's verdict leads to
Resolve(w, f, similar_docstrings_to_check_against, is_it_the_same_data) ==
  LET fr == w.frames[f]
      k == ListIndex(similar_docstrings_to_check_against, is_it_the_same_data.most_similar)
      docstring_hash == hash_for_docstring(fr.docstring)
      ds == IF docstring_hash \in DOMAIN w.dependents THEN w.dependents[docstring_hash] ELSE {}
      ambiguous == [w EXCEPT !.event = Event("ambiguous", f, docstring_hash, None, {})]
  IN IF is_it_the_same_data.same_function = "true"
       THEN IF k = 0
              THEN {Raise(ambiguous, f, "IndexError")}
            ELSE IF hash_for_docstring(similar_docstrings_to_check_against[k]) = fr.parent
              THEN Prune([w EXCEPT !.event = Event("duplicate_of_parent", f, docstring_hash, fr.parent, ds)],
                         f, similar_docstrings_to_check_against[k])
            ELSE MergeOrNovel(w, f, similar_docstrings_to_check_against[k])
       ELSE {[ambiguous EXCEPT !.frames[f].pc = "open"]}

\* ------------------------------------------------------- external services
\* get_closest_functions: the nearest stored docstrings, each at most once
NearestLists ==
  {s \in UNION {[1..n -> Docstrings] : n \in 0..MaxSimilar} :
     \A a, b \in DOMAIN s : a # b => s[a] # s[b]}

\* the judge's parsed JSON: "same function" as the JSON token the LLM wrote
\* (true, false, or a string such as "unknown"), "most similar" as a number
Verdicts ==
  [same_function : {"true", "false", "unknown"},
   most_similar : (0 - 1)..MaxSimilar]

\* the gateway's parsed list of child docstrings
ChildLists == UNION {[1..n -> Docstrings] : n \in 0..MaxChildren}

\* the gateway's root docstring. Docstrings differ only by name: while the registry
\* is empty every choice leads to the same behaviours up to renaming, and one is taken.
RootDocstrings ==
  IF docstrings = << >> /\ dependencies = << >> /\ dependents = << >>
    THEN {1} ELSE Docstrings
\* ------------------------------------------------- _generate_docstrings steps
At(f, pc) == f \in DOMAIN frames /\ frames[f].pc = pc

Step(f) == [World EXCEPT !.event = NoEvent]

\* lines 293-365: get_closest_functions returns, the docstring itself is dropped
\* from the list and, when something is left, the judge is asked and its verdict
\* acted on. The await between the two calls is taken in the same step: nothing
\* shared is read or written before the verdict is back.
ResolveReturns(f) ==
  /\ At(f, "closest")
  /\ \E list \in NearestLists :
       LET similar_docstrings_to_check_against == ListRemove(list, frames[f].docstring)
           w == Step(f)
       IN IF Len(similar_docstrings_to_check_against) # 0
            THEN \E is_it_the_same_data \in Verdicts :
                   \E w1 \in Resolve(w, f, similar_docstrings_to_check_against, is_it_the_same_data) :
                     Commit(w1)
            ELSE Commit([w EXCEPT !.frames[f].pc = "open"])
  /\ UNCHANGED <<driver, passes, loop>>

\* line 367: aiofiles.open(path, "w") creates or truncates the file
PersistOpen(f) ==
  /\ At(f, "open")
  /\ LET h == hash_for_docstring(frames[f].docstring)
         w == Step(f)
     IN Commit([w EXCEPT !.docstrings = [x \in DOMAIN @ \cup {h} |-> IF x = h THEN EmptyFile ELSE @[x]],
                         !.frames[f].pc = "write"])
  /\ UNCHANGED <<driver, passes, loop>>

\* lines 368-380: the text is written, the dependent edge back to the parent is
\* touched, and the gateway is asked for the children
PersistWrite(f) ==
  /\ At(f, "write")
  /\ LET fr == frames[f]
         h == hash_for_docstring(fr.docstring)
         w == [Step(f) EXCEPT !.docstrings = [x \in DOMAIN @ \cup {h} |->
                                          IF x = h THEN file_contents(fr.docstring) ELSE @[x]]]
     IN IF fr.parent = None
          THEN Commit([w EXCEPT !.frames[f].pc = "children"])
        ELSE IF h \in DOMAIN w.dependents
          THEN Commit([w EXCEPT !.dependents = Touch(@, h, fr.parent), !.frames[f].pc = "children"])
        ELSE Commit(Raise(w, f, "FileNotFoundError"))
  /\ UNCHANGED <<driver, passes, loop>>

Child(f, i) == Append(f, i)

Children(f) == {Child(f, i) : i \in 1..frames[f].children}

\* lines 382-396: one coroutine per child; gather starts them in list order and
\* each runs to its first await
RECURSIVE EnterAll(_, _, _, _)
EnterAll(w, f, child_docstrings, i) ==
  IF i > Len(child_docstrings) THEN w
  ELSE LET fr == w.frames[f]
           c == Child(f, i)
           new == Frame(child_docstrings[i], hash_for_docstring(fr.docstring),
                        fr.current_depth + 1, fr.max_depth)
           w1 == [w EXCEPT !.frames = [g \in DOMAIN @ \cup {c} |-> IF g = c THEN new ELSE @[g]]]
       IN EnterAll(Enter(w1, c), f, child_docstrings, i + 1)

\* (a return that records no edge)
Link_NoTouch(w, f, child_docstring_hashes, i) ==
  Return(w, f, hash_for_docstring(w.frames[f].docstring))

\* lines 398-401: a dependency marker per child hash, then return docstring_hash
RECURSIVE Link(_, _, _, _)
Link(w, f, child_docstring_hashes, i) ==
  LET h == hash_for_docstring(w.frames[f].docstring)
  IN IF i > Len(child_docstring_hashes) THEN Return(w, f, h)
     ELSE IF child_docstring_hashes[i] = None THEN Raise(w, f, "TypeError")
     ELSE IF h \notin DOMAIN w.dependencies THEN Raise(w, f, "FileNotFoundError")
     ELSE Link([w EXCEPT !.dependencies = Touch(@, h, child_docstring_hashes[i])],
               f, child_docstring_hashes, i + 1)

\* lines 375-396: the gateway's child list arrives
ChildrenReturn(f) ==
  /\ At(f, "children")
  /\ \E child_docstrings \in ChildLists :
       LET w == [Step(f) EXCEPT !.frames[f].children = Len(child_docstrings)]
       IN IF Len(child_docstrings) = 0
            THEN Commit(Link(w, f, <<>>, 1))
            ELSE Commit(EnterAll([w EXCEPT !.frames[f].pc = "gather"], f, child_docstrings, 1))
  /\ UNCHANGED <<driver, passes, loop>>

Drop(w, fs) == [w EXCEPT !.frames = [g \in DOMAIN @ \ fs |-> @[g]]]

\* lines 396-401: every child has returned
GatherReturns(f) ==
  /\ At(f, "gather")
  /\ \A c \in Children(f) : At(c, "returned")
  /\ LET child_docstring_hashes == [i \in 1..frames[f].children |-> frames[Child(f, i)].result]
     IN Commit(Drop(Link(Step(f), f, child_docstring_hashes, 1), Children(f)))
  /\ UNCHANGED <<driver, passes, loop>>

\* line 396: gather re-raises the exception of a child; the other children keep running
GatherRaises(f) ==
  /\ At(f, "gather")
  /\ \E c \in Children(f) :
       /\ At(c, "failed")
       /\ Commit(Raise(Step(f), f, frames[c].error))
  /\ UNCHANGED <<driver, passes, loop>>

\* ------------------------------------------------- generate_docstrings_tree
Driver(pc, max_depth, root_docstring, i, root_docstring_hash, tree, error) ==
  [pc |-> pc, max_depth |-> max_depth, root_docstring |-> root_docstring, i |-> i,
   root_docstring_hash |-> root_docstring_hash, tree |-> tree, error |-> error]

\* line 189: the outer orchestration calls generate_docstrings_tree
Call ==
  /\ driver.pc \in {"idle", "returned", "failed"}
  /\ passes < MaxPasses
  /\ \E max_depth \in 0..MaxDepth :
       /\ passes + max_depth <= MaxPasses
       /\ passes' = passes + max_depth
       /\ driver' = Driver("root", max_depth, 0, 0, None, None, "none")
  /\ frames' = << >>
  /\ already_traversing' = {}
  /\ event' = NoEvent
  /\ UNCHANGED <<docstrings, dependencies, dependents, loop>>

\* (the set of the pass before handed on instead of a fresh set())
StartPass_KeepsSet(d) ==
  Enter([World EXCEPT !.frames = [g \in {Root} |-> Frame(d.root_docstring, None, 0, d.i)],
                      !.event = NoEvent],
        Root)

\* lines 200-208: pass i calls _generate_docstrings on the root with a fresh set
StartPass(d) ==
  Enter([World EXCEPT !.already_traversing = {},
                      !.frames = [g \in {Root} |-> Frame(d.root_docstring, None, 0, d.i)],
                      !.event = NoEvent],
        Root)

\* (the end of the function without the assertion)
Finish_NoAssert(d) == [d EXCEPT !.pc = "returned"]

\* lines 200, 215-218: the loop is over
Finish(d) ==
  IF d.root_docstring_hash # None
    THEN [d EXCEPT !.pc = "returned"]
    ELSE [d EXCEPT !.pc = "failed", !.error = "AssertionError"]

\* lines 190-208: the gateway returns the root docstring
RootCompletion ==
  /\ driver.pc = "root"
  /\ \E root_docstring \in RootDocstrings :
       LET d == [driver EXCEPT !.root_docstring = root_docstring, !.i = 0]
       IN IF 0 < d.max_depth
            THEN driver' = [d EXCEPT !.pc = "pass"] /\ Commit(StartPass(d))
            ELSE driver' = Finish(d) /\ Commit([World EXCEPT !.event = NoEvent])
  /\ UNCHANGED <<passes, loop>>

\* lines 200-218: a pass returns; the next one starts or the function returns
PassReturns ==
  /\ driver.pc = "pass"
  /\ At(Root, "returned")
  /\ LET d == [driver EXCEPT !.root_docstring_hash = frames[Root].result, !.i = @ + 1]
     IN IF d.i < d.max_depth
          THEN driver' = d /\ Commit(StartPass(d))
          ELSE driver' = Finish(d)
               /\ Commit([World EXCEPT !.frames = << >>, !.event = NoEvent])
  /\ UNCHANGED <<passes, loop>>

\* line 201: the exception of a pass leaves generate_docstrings_tree; the
\* coroutines it leaves behind end with the caller's event loop
PassRaises ==
  /\ driver.pc = "pass"
  /\ At(Root, "failed")
  /\ driver' = [driver EXCEPT !.pc = "failed", !.error = frames[Root].error]
  /\ Commit([World EXCEPT !.frames = << >>,
                          !.event = NoEvent])
  /\ UNCHANGED <<passes, loop>>

\* ---------------------------------------------------- _run_with_error_loop
\* A response is a sequence of JSON tokens; "s" stands for a string literal.
Tokens == {"[", "]", ",", "s"}

Responses == UNION {[1..n -> Tokens] : n \in 0..MaxResponseLen}

\* the two prompts the loop is called with (lines 310 and 377)
Prompts == {"SIMILAR_PROMPT", "PROMPT"}

Parsed(value, next) == [ok |-> TRUE, value |-> value, next |-> next, msg |-> "", pos |-> 0]

\* json.JSONDecodeError(msg, doc, pos); pos counts tokens from 0
JSONDecodeError(msg, pos) == [ok |-> FALSE, value |-> <<>>, next |-> 0, msg |-> msg, pos |-> pos]

JSONString == [kind |-> "str", items |-> <<>>]

JSONArray(items) == [kind |-> "list", items |-> items]

\* json.decoder: scan_once and JSONArray, on tokens; positions are 1-based here
RECURSIVE ScanOnce(_, _), ScanItems(_, _, _)
ScanOnce(response, i) ==
  IF i > Len(response) THEN JSONDecodeError("Expecting value", i - 1)
  ELSE IF response[i] = "s" THEN Parsed(JSONString, i + 1)
  ELSE IF response[i] = "["
    THEN IF i + 1 <= Len(response) /\ response[i + 1] = "]"
           THEN Parsed(JSONArray(<<>>), i + 2)
           ELSE ScanItems(response, i + 1, <<>>)
  ELSE JSONDecodeError("Expecting value", i - 1)

ScanItems(response, i, items) ==
  LET v == ScanOnce(response, i)
  IN IF ~v.ok THEN v
     ELSE IF v.next <= Len(response) /\ response[v.next] = "]"
       THEN Parsed(JSONArray(Append(items, v.value)), v.next + 1)
     ELSE IF v.next <= Len(response) /\ response[v.next] = ","
       THEN ScanItems(response, v.next + 1, Append(items, v.value))
     ELSE JSONDecodeError("Expecting ',' delimiter", v.next - 1)

\* line 437: json.loads(response)
json_loads(response) ==
  LET v == ScanOnce(response, 1)
  IN IF v.ok /\ v.next <= Len(response)
       THEN JSONDecodeError("Extra data", v.next - 1)
       ELSE v

\* a prompt is a sequence of parts, each a sequence of strings
Text(string) == <<string>>

\* repr(e) of a JSONDecodeError: its message and position
Repr(e) == <<"JSONDecodeError", e.msg, ToString(e.pos)>>

\* (the template filled with the response only)
ERROR_MESSAGE_TEMPLATE_NoError(error, response) ==
  <<Text("# Error Message"), Text("The response you previously provided was:"), response>>

\* lines 404-418: ERROR_MESSAGE_TEMPLATE.format(error=..., response=...)
ERROR_MESSAGE_TEMPLATE(error, response) ==
  <<Text("# Error Message"), error, Text("The response you previously provided was:"), response>>

Loop(pc, prompt, error_message, sent, response, data, calls) ==
  [pc |-> pc, prompt |-> prompt, error_message |-> error_message, sent |-> sent,
   response |-> response, data |-> data, calls |-> calls]

LoopIdle == Loop("idle", "", <<>>, <<>>, <<>>, JSONArray(<<>>), 0)

\* lines 421-430: the call, and the first request with error_message = ""
LoopCall ==
  /\ loop.pc \in {"idle", "returned"}
  /\ \E prompt \in Prompts :
       loop' = Loop("awaiting", prompt, <<>>, <<>> \o <<Text(prompt)>>, <<>>, JSONArray(<<>>), 1)
  /\ UNCHANGED registry_vars

\* (a loop that gives up: the second malformed response is raised to the caller)
LoopResponse_GivesUp ==
  /\ loop.pc = "awaiting"
  /\ \E response \in Responses :
       LET data == json_loads(response)
           error_message == ERROR_MESSAGE_TEMPLATE(Repr(data), response) \o <<Text("\n\n")>>
       IN IF data.ok
            THEN loop' = [loop EXCEPT !.pc = "returned", !.response = response, !.data = data.value]
            ELSE IF loop.calls >= 2
              THEN loop' = [loop EXCEPT !.pc = "failed", !.response = response]
              ELSE loop' = [loop EXCEPT !.response = response, !.error_message = error_message,
                                        !.sent = error_message \o <<Text(loop.prompt)>>,
                                        !.calls = @ + 1]
  /\ UNCHANGED registry_vars

\* lines 425-444: a response arrives; it parses and is returned, or the request
\* is made again with the error message put before the prompt
LoopResponse ==
  /\ loop.pc = "awaiting"
  /\ \E response \in Responses :
       LET data == json_loads(response)
           error_message == ERROR_MESSAGE_TEMPLATE(Repr(data), response) \o <<Text("\n\n")>>
       IN IF data.ok
            THEN loop' = [loop EXCEPT !.pc = "returned", !.response = response, !.data = data.value]
            ELSE /\ loop.calls < MaxCalls
                 /\ loop' = [loop EXCEPT !.response = response, !.error_message = error_message,
                                         !.sent = error_message \o <<Text(loop.prompt)>>,
                                         !.calls = @ + 1]
  /\ UNCHANGED registry_vars

\* ------------------------------------------------------------ specification
Init ==
  /\ docstrings = << >>
  /\ dependencies = << >>
  /\ dependents = << >>
  /\ already_traversing = {}
  /\ frames = << >>
  /\ driver = Driver("idle", 0, 0, 0, None, None, "none")
  /\ passes = 0
  /\ event = NoEvent
  /\ loop = LoopIdle

Resolves == \E f \in DOMAIN frames : ResolveReturns(f)

Opens == \E f \in DOMAIN frames : PersistOpen(f)

Writes == \E f \in DOMAIN frames : PersistWrite(f)

Expands == \E f \in DOMAIN frames : ChildrenReturn(f)

Gathers == \E f \in DOMAIN frames : GatherReturns(f)

GatherFails == \E f \in DOMAIN frames : GatherRaises(f)

Next ==
  \/ Call
  \/ RootCompletion
  \/ PassReturns
  \/ PassRaises
  \/ Resolves
  \/ Opens
  \/ Writes
  \/ Expands
  \/ Gathers
  \/ GatherFails

Spec == Init /\ [][Next]_vars

\* _run_with_error_loop on its own, against a gateway that answers anything
LoopNext ==
  \/ LoopCall
  \/ LoopResponse

LoopSpec == Init /\ [][LoopNext]_vars

\* lines 425-444: the gateway's response is valid JSON
LoopValid == LoopResponse /\ loop'.pc = "returned"

\* the gateway does at some time answer a request with valid JSON
FairLoopSpec == LoopSpec /\ WF_vars(LoopValid)

\* a step of a call of generate_docstrings_tree that is under way
Progress ==
  \/ RootCompletion
  \/ PassReturns
  \/ PassRaises
  \/ Resolves
  \/ Opens
  \/ Writes
  \/ Expands
  \/ Gathers
  \/ GatherFails

\* the event loop keeps running the coroutines that are ready, and the gateway and
\* the nearest-neighbour service answer every request; when
\* generate_docstrings_tree is called is up to the caller
FairSpec == Spec /\ WF_vars(Progress)

\* ------------------------------------------------------------------ claims
Markers(dirs, h) == IF h \in DOMAIN dirs THEN dirs[h] ELSE {}

\* C1. Merge rewiring: when a step resolves a candidate (event.hash) as a duplicate
\* of a stored node (event.other) that is not its parent, every node that was a
\* dependent of the candidate before the step (event.set) has the stored node and
\* no longer the candidate among its dependencies, and the candidate's text is gone.
C1_MergeRewiring ==
  event.op = "merge" =>
    /\ \A z \in event.set :
         /\ event.other \in Markers(dependencies, z)
         /\ event.hash \notin Markers(dependencies, z)
    /\ event.hash \notin DOMAIN docstrings

C1_Witness ==
  /\ event.op = "merge"
  /\ \E z \in event.set : z # event.other /\ event.other \in Markers(dependencies, z)

\* C2. Self-reference pruning: when a step judges a node (event.hash) a duplicate of
\* its immediate parent, then after the step the node's text, its dependencies
\* directory and its dependents directory are gone and none of its former
\* dependents (event.set) holds a dependency edge to it.
C2_SelfReferencePruning ==
  event.op = "duplicate_of_parent" =>
    /\ event.hash \notin DOMAIN docstrings
    /\ event.hash \notin DOMAIN dependencies
    /\ event.hash \notin DOMAIN dependents
    /\ \A d \in event.set : event.hash \notin Markers(dependencies, d)

\* C3. Edge symmetry: when an expansion call of a pass has completed, c is under
\* dependencies/p exactly when p is under dependents/c.
C3_EdgeSymmetry ==
  (driver.pc = "pass" /\ At(Root, "returned")) =>
    \A p, c \in Hashes : c \in Markers(dependencies, p) <=> p \in Markers(dependents, c)

\* C4. Cycle safety: a node judged a duplicate of its immediate parent makes its
\* call return no id (None) and raise nothing.
C4_CycleSafety ==
  event.op = "duplicate_of_parent" =>
    /\ frames[event.frame].pc = "returned"
    /\ frames[event.frame].result = None
    /\ frames[event.frame].error = "none"

C5_AtBound(fr) == fr.current_depth >= fr.max_depth

\* C5. Depth bound respected: a call entered with current_depth >= max_depth has
\* returned its node's id at once: it never waits for the resolver or the gateway,
\* has no child, and the step that entered it changed nothing in the registry.
C5_DepthBoundRespected ==
  /\ [](\A f \in DOMAIN frames :
          C5_AtBound(frames[f]) =>
            /\ frames[f].pc = "returned"
            /\ frames[f].result = hash_for_docstring(frames[f].docstring)
            /\ frames[f].children = 0
            /\ \A g \in DOMAIN frames : Len(g) > Len(f) => SubSeq(g, 1, Len(f)) # f \/ f = g)
  /\ [][(\E f \in DOMAIN frames' :
           /\ C5_AtBound(frames'[f])
           /\ (f \notin DOMAIN frames \/ frames[f] # frames'[f]))
        => UNCHANGED <<docstrings, dependencies, dependents>>]_vars

C5_Witness ==
  \E f \in DOMAIN frames :
    /\ f # Root
    /\ C5_AtBound(frames[f])
    /\ frames[f].pc = "returned"
    /\ frames[f].max_depth > 0

NoMarkers == \A h \in Hashes : Markers(dependencies, h) = {} /\ Markers(dependents, h) = {}

\* C6. End to end: when the first decomposition returns and no edge was created
\* (every resolution was Novel and the root got an empty child list), the registry
\* holds exactly the root text and the call returned the root's id.
C6_EndToEnd ==
  (driver.pc = "returned" /\ passes = driver.max_depth /\ NoMarkers) =>
    /\ DOMAIN docstrings = {hash_for_docstring(driver.root_docstring)}
    /\ driver.tree = hash_for_docstring(driver.root_docstring)

C7_PassStarts == driver'.pc = "pass" /\ (driver.pc # "pass" \/ driver'.i # driver.i)

\* C7. Iterative deepening: the root text is obtained once per call; every pass
\* starts the expansion on that text with current_depth = 0, no parent and a fresh
\* set (so the root is looked at again, not skipped as visited), the depth bound
\* starts at 0 and grows by one per pass, and the call returns only after the
\* configured number of passes.
C7_IterativeDeepening ==
  [][/\ (driver.pc = "pass" /\ driver'.pc = "pass") =>
          /\ driver'.root_docstring = driver.root_docstring
          /\ driver'.max_depth = driver.max_depth
          /\ driver'.i \in {driver.i, driver.i + 1}
     /\ (driver.pc = "root" /\ driver'.pc = "pass") => driver'.i = 0
     /\ C7_PassStarts =>
          /\ DOMAIN frames' = {Root}
          /\ frames'[Root].docstring = driver'.root_docstring
          /\ frames'[Root].current_depth = 0
          /\ frames'[Root].parent = None
          /\ frames'[Root].max_depth = driver'.i
          /\ already_traversing' = {hash_for_docstring(driver'.root_docstring)}
          /\ frames'[Root].pc = IF driver'.i = 0 THEN "returned" ELSE "closest"
     /\ (driver.pc = "pass" /\ driver'.pc = "returned") =>
          /\ driver'.i = driver'.max_depth
          /\ driver'.i = driver.i + 1
    ]_vars

\* three passes were run although the second and the third found the same graph
C7_Witness ==
  /\ driver.pc = "returned"
  /\ driver.i = 3
  /\ NoMarkers
  /\ DOMAIN docstrings = {hash_for_docstring(driver.root_docstring)}

C8_Contains(seq, x) == \E k \in DOMAIN seq : seq[k] = x

\* C8. Malformed-response recovery: when _run_with_error_loop returns, its value is
\* the parse of the last, valid response; and the prompt of every retry is the
\* original prompt preceded by a block holding the description of the parse
\* exception of the response just before and that malformed response itself.
C8_MalformedResponseRecovery ==
  /\ loop.pc = "returned" =>
       /\ json_loads(loop.response).ok
       /\ loop.data = json_loads(loop.response).value
       /\ loop.sent[Len(loop.sent)] = Text(loop.prompt)
  /\ (loop.pc = "awaiting" /\ loop.calls > 1) =>
       /\ ~json_loads(loop.response).ok
       /\ loop.sent[Len(loop.sent)] = Text(loop.prompt)
       /\ C8_Contains(loop.sent, Repr(json_loads(loop.response)))
       /\ C8_Contains(loop.sent, loop.response)
       /\ Len(loop.sent) = Len(ERROR_MESSAGE_TEMPLATE(<<>>, <<>>)) + 2

\* an invalid first response, a valid second one, and the list it holds returned
C8_Witness ==
  /\ loop.pc = "returned"
  /\ loop.calls = 2
  /\ loop.response = <<"[", "s", "]">>
  /\ loop.data = JSONArray(<<JSONString>>)
  /\ Len(loop.sent) > 1

C9_Entered(f) ==
  /\ frames'[f].pc = "closest"
  /\ (f \notin DOMAIN frames \/ frames[f].pc # "closest" \/ frames[f].docstring # frames'[f].docstring)

\* C9. Idempotent storage: the text stored under an id is always the text that
\* hashes to that id followed by a newline (or the empty file of a write under
\* way), so a second write of a text stores under the same id what the first one
\* stored; and a call that builds the edge directories of a node that has them
\* already goes on to the resolver with their markers untouched.
C9_IdempotentStorage ==
  /\ [](\A h \in DOMAIN docstrings :
          \/ docstrings[h] = EmptyFile
          \/ \E d \in Docstrings : h = <<"hash", d>> /\ docstrings[h] = <<d, "\n">>)
  /\ [][\A f \in DOMAIN frames :
          (frames[f].pc = "write" /\ f \in DOMAIN frames' /\ frames'[f].pc # "write") =>
            /\ frames'[f].pc = "children"
            /\ docstrings'[<<"hash", frames[f].docstring>>] = <<frames[f].docstring, "\n">>]_vars
  /\ [][\A f \in DOMAIN frames' :
          C9_Entered(f) =>
            LET h == hash_for_docstring(frames'[f].docstring)
            IN /\ h \in DOMAIN dependents' /\ h \in DOMAIN dependencies'
               /\ h \in DOMAIN dependents => dependents'[h] = dependents[h]
               /\ (h \in DOMAIN dependencies /\ event'.op # "merge") =>
                    dependencies'[h] = dependencies[h]]_vars

\* third pass of the first decomposition: the root, stored with its directories by
\* the second pass, has been entered, resolved as new and written again
C9_Witness ==
  /\ driver.pc = "pass"
  /\ driver.i = 2
  /\ passes = driver.max_depth
  /\ At(Root, "children")
  /\ frames[Root].docstring = driver.root_docstring
  /\ docstrings[hash_for_docstring(driver.root_docstring)] = file_contents(driver.root_docstring)
  /\ Markers(dependencies, hash_for_docstring(driver.root_docstring)) # {}

\* C10. Ambiguous judgment fails open: a verdict whose "same function" is not true,
\* or whose "most similar" is out of range of the candidate list, leaves the call
\* on its way to persist the candidate as a new node, with no error.
C10_AmbiguousFailsOpen ==
  event.op = "ambiguous" =>
    /\ frames[event.frame].pc = "open"
    /\ frames[event.frame].error = "none"

Parent(f) == SubSeq(f, 1, Len(f) - 1)

Failed(f) == f \in DOMAIN frames /\ frames[f].pc = "failed"

\* C11. NotFound is fatal: a rename that finds no marker leaves its call failed
\* with FileNotFoundError and no id; a failed call is never resumed or retried, its
\* parent is waiting in its fan-out or has failed too and never returns, a failed
\* call is gone only by the step in which generate_docstrings_tree fails with the
\* error of the root call, and no failed call stays for ever: the failure does
\* reach the caller of generate_docstrings_tree.
C11_NotFoundIsFatal ==
  /\ [](/\ event.op = "rewire_failed" =>
             /\ Failed(event.frame)
             /\ frames[event.frame].error = "FileNotFoundError"
        /\ \A f \in DOMAIN frames :
             Failed(f) =>
               /\ frames[f].result = None
               /\ f # Root => frames[Parent(f)].pc \in {"gather", "failed"}
               /\ f = Root => driver.pc = "pass")
  /\ [][\A f \in DOMAIN frames :
          Failed(f) =>
            /\ f \in DOMAIN frames' => frames'[f] = frames[f]
            /\ f \notin DOMAIN frames' =>
                 /\ Failed(Root)
                 /\ driver'.pc = "failed"
                 /\ driver'.error = frames[Root].error]_vars
  /\ []<>(\A f \in DOMAIN frames : ~Failed(f))

\* a rewiring that failed in a child has failed the root call with the same error
C11_Witness ==
  /\ Failed(Root)
  /\ frames[Root].error = "FileNotFoundError"
  /\ \E c \in Children(Root) :
       /\ Failed(c)
       /\ frames[c].error = "FileNotFoundError"
       /\ frames[c].docstring # frames[Root].docstring

C12_Persisted(fr) ==
  LET h == hash_for_docstring(fr.docstring)
  IN /\ h \in DOMAIN docstrings
     /\ docstrings[h] = file_contents(fr.docstring)
     /\ fr.parent # None => fr.parent \in Markers(dependents, h)

\* C12. Persist before fan-out: a call that has asked the gateway for its node's
\* children, or is waiting for its child calls, has the node's text in the registry
\* and, when it has a parent, the parent's marker in the node's dependents
\* directory; and a child call is only ever started by a call that was waiting for
\* the gateway with its node persisted in this way.
C12_PersistBeforeFanOut ==
  /\ [](\A f \in DOMAIN frames :
          frames[f].pc \in {"children", "gather"} => C12_Persisted(frames[f]))
  /\ [][\A c \in DOMAIN frames' \ DOMAIN frames :
          c # Root =>
            /\ Parent(c) \in DOMAIN frames
            /\ frames[Parent(c)].pc = "children"
            /\ C12_Persisted(frames[Parent(c)])
            /\ frames'[c].parent = hash_for_docstring(frames[Parent(c)].docstring)]_vars

\* a node under a parent, persisted, whose own children are being expanded
C12_Witness ==
  \E f \in DOMAIN frames :
    /\ f # Root
    /\ frames[f].pc = "gather"
    /\ frames[f].parent # None
    /\ \E c \in Children(f) : c \in DOMAIN frames

\* C13. Duplicate of a stored node: when a step resolves a candidate as a duplicate
\* of a node whose text is stored and has rewired the candidate's dependents, the
\* stored node is not expanded again: the call is over after the step and does not
\* go on to the resolver with the stored node's text.
C13_StoredDuplicateNotReexpanded ==
  (event.op = "merge" /\ event.other \in DOMAIN docstrings) =>
    frames[event.frame].pc = "returned"

C14_Walks == UNION {[1..n -> Hashes] : n \in 1..NumDocs}

\* C14. Acyclic dependency graph: in every state the dependency markers of the
\* registry hold no cycle: there is no walk h1 -> h2 -> ... -> h1 along them, of
\* length one (a node depending on itself) or more.
C14_AcyclicDependencies ==
  \A p \in C14_Walks :
    \E i \in 1..Len(p) : p[(i % Len(p)) + 1] \notin Markers(dependencies, p[i])

C15_Results(f) == {frames[c].result : c \in Children(f)} \ {None}

C15_Linked ==
  \A f \in DOMAIN frames :
    (/\ frames[f].pc = "gather"
     /\ \A c \in Children(f) : At(c, "returned")
     /\ f \in DOMAIN frames'
     /\ frames'[f].pc # "gather") =>
      LET h == hash_for_docstring(frames[f].docstring)
      IN /\ frames'[f].pc = "returned"
         /\ Markers(dependencies', h) = Markers(dependencies, h) \cup C15_Results(f)

C15_PrunedChildTolerated ==
  \A f \in DOMAIN frames :
    (/\ frames[f].pc = "gather"
     /\ event.op = "duplicate_of_parent"
     /\ event.frame \in Children(f)
     /\ \A c \in Children(f) \ {event.frame} : ~Failed(c)
     /\ f \in DOMAIN frames') =>
      frames'[f].pc # "failed"

\* C15. Link step skips null children: when the child calls of a node have all
\* returned, the node's call returns and its dependencies directory gains a marker
\* for exactly the ids the children returned, none for a child that returned no id;
\* and a child that was judged a duplicate of its parent does not make the
\* parent's call fail.
C15_LinkSkipsNullChildren == [][C15_Linked /\ C15_PrunedChildTolerated]_vars

C16_Working(fr) == fr.pc \in {"closest", "open", "write", "children", "gather"}

C16_SamePass == driver.pc = "pass" /\ driver'.pc = "pass" /\ driver'.i = driver.i

C16_PassesGuard(f) ==
  /\ frames'[f].pc = "closest"
  /\ (f \notin DOMAIN frames \/ frames[f].docstring # frames'[f].docstring)

C16_Unchanged(files, files_after, h) ==
  /\ h \in DOMAIN files <=> h \in DOMAIN files_after
  /\ h \in DOMAIN files => files_after[h] = files[h]

\* C16. Visited guard under interleaving: no two calls are at work (waiting for the
\* resolver, writing, waiting for the gateway or for their children) on the same id
\* at once, and the id of a call at work is in the set; within a pass the set only
\* grows, and a call goes on past the guard only with an id that was not in the set
\* and is in it afterwards, so that no id passes twice in a pass; a child call
\* started with an id that is in the set is returned at once with that id and leaves
\* the id's text and directories as they were, and so is the recursion of a merge
\* into a node whose id is in the set.
C16_VisitedGuard ==
  /\ [](\A f \in DOMAIN frames :
          C16_Working(frames[f]) =>
            /\ hash_for_docstring(frames[f].docstring) \in already_traversing
            /\ \A g \in DOMAIN frames :
                 (g # f /\ C16_Working(frames[g])) => frames[g].docstring # frames[f].docstring)
  /\ [][/\ C16_SamePass => already_traversing \subseteq already_traversing'
        /\ \A f \in DOMAIN frames' :
             LET h == hash_for_docstring(frames'[f].docstring)
             IN /\ C16_PassesGuard(f) =>
                     /\ h \in already_traversing'
                     /\ C16_SamePass => h \notin already_traversing
                /\ (C16_SamePass /\ f \notin DOMAIN frames /\ h \in already_traversing) =>
                     /\ frames'[f].pc = "returned"
                     /\ frames'[f].result = h
                     /\ C16_Unchanged(docstrings, docstrings', h)
                     /\ C16_Unchanged(dependencies, dependencies', h)
                     /\ C16_Unchanged(dependents, dependents', h)
        /\ (C16_SamePass /\ event'.op = "merge" /\ event'.other \in already_traversing) =>
             /\ frames'[event'.frame].pc = "returned"
             /\ frames'[event'.frame].result = event'.other
       ]_vars

\* two siblings with the same text: the first is at work on it, the second was
\* returned by the guard
C16_Witness ==
  \E f, g \in DOMAIN frames :
    /\ f # g
    /\ Len(f) = Len(g)
    /\ frames[f].docstring = frames[g].docstring
    /\ C16_Working(frames[f])
    /\ frames[g].pc = "returned"
    /\ frames[g].current_depth < frames[g].max_depth

\* C17. The repair loop never surfaces a parse error and has no iteration cap: a
\* call is waiting for the gateway or has returned, never failed; a malformed
\* response is always answered by one more request and nothing else, a valid one by
\* the return of its parsed value with no further request, so that n malformed
\* responses and a valid one take n + 1 requests and the call returns only on a
\* valid response; and when the gateway does at some time answer with valid JSON,
\* the call returns.
C17_RepairLoopUncapped ==
  /\ [](/\ loop.pc \in {"idle", "awaiting", "returned"}
        /\ loop.pc # "idle" => loop.calls >= 1)
  /\ [][loop.pc = "awaiting" =>
          \/ /\ loop'.pc = "awaiting"
             /\ ~json_loads(loop'.response).ok
             /\ loop'.calls = loop.calls + 1
             /\ loop'.prompt = loop.prompt
          \/ /\ loop'.pc = "returned"
             /\ json_loads(loop'.response).ok
             /\ loop'.data = json_loads(loop'.response).value
             /\ loop'.calls = loop.calls]_vars
  /\ (loop.pc = "awaiting") ~> (loop.pc = "returned")

\* two malformed responses, then a valid one: returned after three requests
C17_Witness ==
  /\ loop.pc = "returned"
  /\ loop.calls = 3
  /\ json_loads(loop.response).ok
  /\ loop.error_message # <<>>

C18_Running(f) == f \in DOMAIN frames /\ frames[f].pc \notin {"returned", "failed"}

\* C18. Every depth pass terminates: the depth of a call is the number of calls
\* above it and, for a call at work, below the bound of the pass; the same-depth
\* recursion of a merge either returns at once or puts into the set an id that was
\* not in it; and the root call of a pass does not stay under way for ever: it
\* returns or fails.
C18_PassTerminates ==
  /\ [](\A f \in DOMAIN frames :
          /\ frames[f].current_depth = Len(f)
          /\ frames[f].current_depth <= frames[f].max_depth
          /\ C18_Running(f) => frames[f].current_depth < frames[f].max_depth)
  /\ [][event'.op = "merge" =>
          \/ frames'[event'.frame].pc = "returned"
          \/ /\ event'.other \notin already_traversing
             /\ already_traversing' = already_traversing \cup {event'.other}
             /\ Cardinality(already_traversing') <= NumDocs]_vars
  /\ []<>(~C18_Running(Root))

\* a call has merged its node into a stored one and goes on, at the same depth,
\* with the stored node, whose id is now in the set
C18_Witness ==
  /\ event.op = "merge"
  /\ frames[event.frame].pc = "closest"
  /\ frames[event.frame].docstring = event.other[2]
  /\ event.other \in already_traversing

\* C19. Exact pass schedule: a call with configured bound N runs its passes with the
\* depth bounds 0, 1, ..., in that order, each below N; it returns only from the
\* pass with bound N - 1, after N passes; and with N = 0 it starts no pass and
\* fails with the assertion error, which is the only way that error arises.
C19_PassSchedule ==
  /\ [](/\ driver.pc = "pass" =>
             /\ driver.i < driver.max_depth
             /\ Root \in DOMAIN frames
             /\ frames[Root].max_depth = driver.i
        /\ driver.pc = "returned" =>
             /\ driver.max_depth >= 1
             /\ driver.i = driver.max_depth
        /\ driver.max_depth = 0 =>
             /\ driver.pc \in {"idle", "root", "failed"}
             /\ frames = << >>
        /\ (driver.pc = "failed" /\ driver.max_depth = 0) =>
             /\ driver.error = "AssertionError"
             /\ driver.i = 0
        /\ driver.error = "AssertionError" => driver.max_depth = 0)
  /\ [][/\ C7_PassStarts =>
             /\ driver'.i = IF driver.pc = "root" THEN 0 ELSE driver.i + 1
             /\ frames'[Root].max_depth = driver'.i
             /\ frames'[Root].current_depth = 0
        /\ (driver.pc = "pass" /\ driver'.pc = "returned") =>
             /\ frames[Root].max_depth = driver.max_depth - 1
             /\ frames[Root].pc = "returned"
        /\ (driver.pc = "root" /\ driver.max_depth = 0) =>
             /\ driver'.pc = "failed"
             /\ frames' = << >>]_vars

\* a call with N = 0, made after earlier calls, has failed its assertion
C19_Witness ==
  /\ driver.pc = "failed"
  /\ driver.max_depth = 0
  /\ driver.error = "AssertionError"
  /\ passes > 0

C20_Writer(f, h) ==
  /\ hash_for_docstring(frames[f].docstring) = h
  /\ frames[f].pc \in {"open", "write"}
  /\ frames[f].current_depth < frames[f].max_depth

\* C20. Depth-bound leaves are linked but not stored: the step that starts a call
\* at the depth bound of its pass leaves texts and edge directories as they are and
\* the call is returned with its id; when the calls of a node's children have all
\* returned and the node's call returns, every child that was at the bound has a
\* dependency marker under the node; and a text is written, or a dependent marker
\* created, only by a call on that id that is below the bound and has passed
\* resolution.
C20_LeavesLinkedNotStored ==
  [][/\ \A c \in DOMAIN frames' \ DOMAIN frames :
          (c # Root /\ C5_AtBound(frames'[c])) =>
            /\ frames'[c].pc = "returned"
            /\ frames'[c].result = hash_for_docstring(frames'[c].docstring)
            /\ UNCHANGED <<docstrings, dependencies, dependents>>
     /\ \A f \in DOMAIN frames :
          (/\ frames[f].pc = "gather"
           /\ f \in DOMAIN frames'
           /\ frames'[f].pc = "returned") =>
            \A c \in Children(f) :
              C5_AtBound(frames[c]) =>
                hash_for_docstring(frames[c].docstring)
                  \in Markers(dependencies', hash_for_docstring(frames[f].docstring))
     /\ \A h \in DOMAIN docstrings' :
          (h \notin DOMAIN docstrings \/ docstrings'[h] # docstrings[h]) =>
            \E f \in DOMAIN frames : C20_Writer(f, h)
     /\ \A h \in DOMAIN dependents' :
          \A p \in dependents'[h] \ Markers(dependents, h) :
            \E f \in DOMAIN frames : C20_Writer(f, h) /\ frames[f].parent = p
    ]_vars

\* the decomposition has returned, and the registry holds a dependency edge to an
\* id that has no text and no edge back
C20_Witness ==
  /\ driver.pc = "returned"
  /\ passes = driver.max_depth
  /\ \E p \in DOMAIN dependencies :
       \E c \in dependencies[p] :
         /\ c # p
         /\ c \notin DOMAIN docstrings
         /\ p \notin Markers(dependents, c)
====
